---- MODULE Spec2Model ----
(***************************************************************************)
(* Model of the HTTP service of src/app.py: a Flask application with two   *)
(* view functions, index (GET /) and healthz (GET /healthz), served by     *)
(* app.run.  The state is the process (created, serving, terminated), the  *)
(* application's URL map and view table, and the requests in flight, each  *)
(* at its own position of Flask's request handling (accepted, matched,     *)
(* responded), so that requests interleave at every step.                  *)
(*                                                                         *)
(* A request path is the sequence of its segments: "/" is << >>,           *)
(* "/healthz" is <<"healthz">>, "/static/app.js" is <<"static","app.js">>. *)
(* Paths are canonical (no empty segment, no trailing slash).              *)
(***************************************************************************)
EXTENDS Naturals, Sequences, FiniteSets

VARIABLES server, url_map, reqs

vars == <<server, url_map, reqs>>

(* Bound of the model: the number of requests the service accepts in a run. *)
MaxReq == 2

(* app.run(host="0.0.0.0", port=8000): every interface, port 8000. *)
Host == "0.0.0.0"

Port == 8000

(* The request methods and paths the requests are drawn from. *)
Methods == {"GET", "HEAD", "OPTIONS", "POST"}

Paths == {<< >>, <<"healthz">>, <<"nonexistent">>, <<"static", "app.js">>}

(* What @app.get(rule) registers: a rule for GET, to which the routing     *)
(* layer adds HEAD (served by the GET view) and OPTIONS (answered by the   *)
(* application itself).                                                    *)
GetMethods == {"GET", "HEAD", "OPTIONS"}

(* app = Flask(__name__): the application is created with the rule of its  *)
(* static folder, /static/<path:filename>, endpoint "static".              *)
StaticRule == [rule |-> <<"static">>, prefix |-> TRUE, endpoint |-> "static",
               methods |-> GetMethods]

(* The files of the application's static folder: the service has none. *)
StaticFiles == {}

(* Mutant of IndexRule: the rule also registered for POST. *)
IndexRule_AlsoPost == [rule |-> << >>, prefix |-> FALSE, endpoint |-> "index",
                       methods |-> GetMethods \cup {"POST"}]

(* @app.get("/") on index. *)
IndexRule == [rule |-> << >>, prefix |-> FALSE, endpoint |-> "index",
              methods |-> GetMethods]

(* @app.get("/healthz") on healthz. *)
HealthzRule == [rule |-> <<"healthz">>, prefix |-> FALSE, endpoint |-> "healthz",
                methods |-> GetMethods]

(* The URL map once the module is imported. *)
UrlMap == {StaticRule, IndexRule, HealthzRule}

(* jsonify(key=value): the JSON text of a one-field object, compact        *)
(* separators and a trailing newline, with mimetype application/json.      *)
dumps(key, value) == "{\"" \o key \o "\":\"" \o value \o "\"}\n"

(* Mutant of jsonify: the JSON text returned as a plain string, which the   *)
(* framework sends as text/html.                                            *)
jsonify_AsText(key, value) == [data |-> dumps(key, value), mimetype |-> "text/html"]

jsonify(key, value) == [data |-> dumps(key, value), mimetype |-> "application/json"]

(* A view's return value (response, status) made into the response. *)
make_response(rv, status) ==
    [status |-> status, data |-> rv.data, mimetype |-> rv.mimetype, allow |-> {}]

(* Mutant of index: another greeting. *)
index_OtherGreeting ==
    [status |-> 200, data |-> dumps("message", "Hello, World!"),
     mimetype |-> "application/json", allow |-> {}]

(* def index(): return jsonify(message="Hello from CI/CD!"), 200 *)
index == make_response(jsonify("message", "Hello from CI/CD!"), 200)

(* Mutant of healthz: the status reported under another key. *)
healthz_OtherKey ==
    [status |-> 200, data |-> dumps("health", "ok"),
     mimetype |-> "application/json", allow |-> {}]

(* def healthz(): return jsonify(status="ok"), 200 *)
healthz == make_response(jsonify("status", "ok"), 200)

(* The error response of the routing layer's exceptions and of abort(404):  *)
(* an HTML page naming the error; a 405 lists the methods the path allows.  *)
NotFound == [status |-> 404, data |-> "<title>404 Not Found</title>",
             mimetype |-> "text/html", allow |-> {}]

MethodNotAllowed(valid_methods) ==
    [status |-> 405, data |-> "<title>405 Method Not Allowed</title>",
     mimetype |-> "text/html", allow |-> valid_methods]

(* The static view, send_static_file(filename): the file, or 404 when the   *)
(* static folder has no such file.                                          *)
send_static_file(filename) ==
    IF filename \in StaticFiles
    THEN [status |-> 200, data |-> "<file>", mimetype |-> "application/octet-stream",
          allow |-> {}]
    ELSE NotFound

(* The application's answer to OPTIONS on a rule: 200, no body, the rule's  *)
(* methods in Allow.                                                        *)
make_default_options_response(methods) ==
    [status |-> 200, data |-> "", mimetype |-> "text/html", allow |-> methods]

(* No response written yet. *)
NoResponse == [status |-> 0, data |-> "", mimetype |-> "", allow |-> {}]

(* Whether a rule matches a path: the static rule matches every path under  *)
(* /static/, the others their exact path.                                   *)
RuleMatches(r, path) ==
    IF r.prefix
    THEN Len(path) = Len(r.rule) + 1 /\ SubSeq(path, 1, Len(r.rule)) = r.rule
    ELSE path = r.rule

(* Mutant of match: the method is decided before the path, so a method no   *)
(* rule of the path supports is 405 also when no rule matches the path.     *)
match_MethodFirst(map, method, path) ==
    LET byPath == {r \in map : RuleMatches(r, path)}
        full   == {r \in byPath : method \in r.methods}
    IN  IF full # {}
        THEN [endpoint |-> (CHOOSE r \in full : TRUE).endpoint,
              methods |-> (CHOOSE r \in full : TRUE).methods, exc |-> 0]
        ELSE IF method \notin GetMethods
        THEN [endpoint |-> "", methods |-> GetMethods, exc |-> 405]
        ELSE [endpoint |-> "", methods |-> {}, exc |-> 404]

(* The routing layer's match of (method, path) against a URL map: the       *)
(* endpoint of the rule that matches path and method; 405 when rules match  *)
(* the path but none the method; 404 when no rule matches the path.         *)
match(map, method, path) ==
    LET byPath == {r \in map : RuleMatches(r, path)}
        full   == {r \in byPath : method \in r.methods}
    IN  IF full # {}
        THEN [endpoint |-> (CHOOSE r \in full : TRUE).endpoint,
              methods |-> (CHOOSE r \in full : TRUE).methods, exc |-> 0]
        ELSE IF byPath # {}
        THEN [endpoint |-> "", methods |-> UNION {r.methods : r \in byPath}, exc |-> 405]
        ELSE [endpoint |-> "", methods |-> {}, exc |-> 404]

(* Mutant of view_functions: healthz reports how many requests the service  *)
(* has answered, a counter shared by the requests.                          *)
view_functions_Counting(endpoint, path) ==
    CASE endpoint = "index"   -> index
      [] endpoint = "healthz" ->
            [healthz EXCEPT !.data =
                IF \E j \in 1..Len(reqs) : reqs[j].stage = "responded"
                THEN dumps("status", "ok, seen before") ELSE @]
      [] endpoint = "static"  -> send_static_file(path[Len(path)])

(* The view table: the view function of an endpoint, called for a request. *)
view_functions(endpoint, path) ==
    CASE endpoint = "index"   -> index
      [] endpoint = "healthz" -> healthz
      [] endpoint = "static"  -> send_static_file(path[Len(path)])

(* Flask's dispatch of a matched request r: the routing exception's         *)
(* response if routing failed, the automatic OPTIONS response, or else the  *)
(* view's return value.  view names the view function that ran.             *)
dispatch_request(r) ==
    IF r.exc = 404 THEN [view |-> "none", response |-> NotFound]
    ELSE IF r.exc = 405 THEN [view |-> "none", response |-> MethodNotAllowed(r.methods)]
    ELSE IF r.method = "OPTIONS"
    THEN [view |-> "none", response |-> make_default_options_response(r.methods)]
    ELSE [view |-> r.endpoint, response |-> view_functions(r.endpoint, r.path)]

(* Mutant of finalize_request: the body is sent for HEAD too. *)
finalize_request_KeepBody(method, response) == response

(* The response as written to the client: a HEAD request gets the status    *)
(* and headers of the response and no body.                                 *)
finalize_request(method, response) ==
    IF method = "HEAD" THEN [response EXCEPT !.data = ""] ELSE response

(* The state once src/app.py is imported: the application exists with its   *)
(* URL map, the server is not started, no request was accepted.             *)
Init ==
    /\ server = [state |-> "created", host |-> "", port |-> 0]
    /\ url_map = UrlMap
    /\ reqs = << >>

(* if __name__ == "__main__": app.run(host="0.0.0.0", port=8000) *)
Run ==
    /\ server.state = "created"
    /\ server' = [state |-> "serving", host |-> Host, port |-> Port]
    /\ UNCHANGED <<url_map, reqs>>

(* The serving process accepts a request (method, path). *)
Accept(method, path) ==
    /\ server.state = "serving"
    /\ Len(reqs) < MaxReq
    /\ reqs' = Append(reqs, [method |-> method, path |-> path, stage |-> "accepted",
                             endpoint |-> "", methods |-> {}, exc |-> 0,
                             view |-> "none", sent |-> 0, response |-> NoResponse])
    /\ UNCHANGED <<server, url_map>>

(* Mutant of Match: a path that matched no rule is registered as a rule of  *)
(* the index view, so the URL map grows with the requests.                  *)
Match_Registering(i) ==
    /\ server.state = "serving"
    /\ i \in 1..Len(reqs)
    /\ reqs[i].stage = "accepted"
    /\ LET m == match(url_map, reqs[i].method, reqs[i].path)
       IN  /\ reqs' = [reqs EXCEPT ![i] = [@ EXCEPT !.stage = "matched",
                                                    !.endpoint = m.endpoint,
                                                    !.methods = m.methods,
                                                    !.exc = m.exc]]
           /\ url_map' = IF m.exc = 404
                         THEN url_map \cup {[IndexRule EXCEPT !.rule = reqs[i].path]}
                         ELSE url_map
    /\ UNCHANGED server

(* The request context of request i is pushed: the URL map is matched and   *)
(* the request keeps the rule it matched or the routing exception.          *)
Match(i) ==
    /\ server.state = "serving"
    /\ i \in 1..Len(reqs)
    /\ reqs[i].stage = "accepted"
    /\ LET m == match(url_map, reqs[i].method, reqs[i].path)
       IN  reqs' = [reqs EXCEPT ![i] = [@ EXCEPT !.stage = "matched",
                                                 !.endpoint = m.endpoint,
                                                 !.methods = m.methods,
                                                 !.exc = m.exc]]
    /\ UNCHANGED <<server, url_map>>

(* Mutant of Dispatch: one response object shared by the requests, so the   *)
(* response written for request i replaces those already given.             *)
Dispatch_SharedResponse(i) ==
    /\ server.state = "serving"
    /\ i \in 1..Len(reqs)
    /\ reqs[i].stage = "matched"
    /\ LET d == dispatch_request(reqs[i])
           resp == finalize_request(reqs[i].method, d.response)
       IN  reqs' = [j \in 1..Len(reqs) |->
                      IF j = i
                      THEN [reqs[j] EXCEPT !.stage = "responded", !.view = d.view,
                                           !.sent = @ + 1, !.response = resp]
                      ELSE IF reqs[j].stage = "responded"
                      THEN [reqs[j] EXCEPT !.response = resp]
                      ELSE reqs[j]]
    /\ UNCHANGED <<server, url_map>>

(* Mutant of Dispatch: an error response ends the process. *)
Dispatch_ExitOnError(i) ==
    /\ server.state = "serving"
    /\ i \in 1..Len(reqs)
    /\ reqs[i].stage = "matched"
    /\ LET d == dispatch_request(reqs[i])
       IN  /\ reqs' = [reqs EXCEPT ![i] = [@ EXCEPT !.stage = "responded",
                                                    !.view = d.view,
                                                    !.sent = @ + 1,
                                                    !.response =
                                                       finalize_request(reqs[i].method, d.response)]]
           /\ server' = IF d.response.status \in {404, 405}
                        THEN [server EXCEPT !.state = "terminated"]
                        ELSE server
    /\ UNCHANGED url_map

(* Request i is dispatched and its response written. *)
Dispatch(i) ==
    /\ server.state = "serving"
    /\ i \in 1..Len(reqs)
    /\ reqs[i].stage = "matched"
    /\ LET d == dispatch_request(reqs[i])
       IN  reqs' = [reqs EXCEPT ![i] = [@ EXCEPT !.stage = "responded",
                                                 !.view = d.view,
                                                 !.sent = @ + 1,
                                                 !.response =
                                                    finalize_request(reqs[i].method, d.response)]]
    /\ UNCHANGED <<server, url_map>>

(* The process is terminated from outside (a signal): nothing is handled    *)
(* after it.                                                                *)
Terminate ==
    /\ server.state = "serving"
    /\ server' = [server EXCEPT !.state = "terminated"]
    /\ UNCHANGED <<url_map, reqs>>

Next ==
    \/ Run
    \/ \E method \in Methods, path \in Paths : Accept(method, path)
    \/ \E i \in 1..MaxReq : Match(i)
    \/ \E i \in 1..MaxReq : Dispatch(i)
    \/ Terminate

Spec == Init /\ [][Next]_vars

(* Request handling is scheduled fairly: a request that can be matched or   *)
(* dispatched eventually is.  Termination is external and not forced.       *)
FairSpec ==
    /\ Spec
    /\ \A i \in 1..MaxReq : WF_vars(Match(i)) /\ WF_vars(Dispatch(i))

(***************************************************************************)
(* Properties                                                              *)
(***************************************************************************)

RootPath == << >>

HealthzPath == <<"healthz">>

Ids == 1..Len(reqs)

Responded(i) == reqs[i].stage = "responded"

Is(i, method, path) == reqs[i].method = method /\ reqs[i].path = path

UnderStatic(path) == Len(path) >= 2 /\ path[1] = "static"

GreetingBody == "{\"message\":\"Hello from CI/CD!\"}\n"

HealthBody == "{\"status\":\"ok\"}\n"

ErrorStatus == {404, 405}

(* C1: every answered GET /healthz has status 200 and the JSON body whose   *)
(* only field is status with the value "ok", whatever else was requested.   *)
C1_HealthzOk ==
    \A i \in Ids :
        Responded(i) /\ Is(i, "GET", HealthzPath)
            => reqs[i].response.status = 200 /\ reqs[i].response.data = HealthBody

(* A GET /healthz answered after an earlier request was answered 404. *)
C1_Witness ==
    /\ Len(reqs) = 2
    /\ Responded(1) /\ Responded(2)
    /\ Is(2, "GET", HealthzPath)
    /\ reqs[1].response.status = 404

(* C2: every answered GET / has status 200 and the JSON body whose only     *)
(* field is message with the value "Hello from CI/CD!".                     *)
C2_IndexHello ==
    \A i \in Ids :
        Responded(i) /\ Is(i, "GET", RootPath)
            => reqs[i].response.status = 200 /\ reqs[i].response.data = GreetingBody

(* A GET / answered after an earlier request was answered 405. *)
C2_Witness ==
    /\ Len(reqs) = 2
    /\ Responded(1) /\ Responded(2)
    /\ Is(2, "GET", RootPath)
    /\ reqs[1].response.status = 405

(* C3 as stated: every answered request whose path is neither / nor         *)
(* /healthz has status 404, whatever its method, and neither index nor      *)
(* healthz ran for it.                                                      *)
C3_Original ==
    \A i \in Ids :
        Responded(i) /\ reqs[i].path \notin {RootPath, HealthzPath}
            => /\ reqs[i].response.status = 404
               /\ reqs[i].view \notin {"index", "healthz"}

(* C3 amended: every answered request whose path is neither /, /healthz nor *)
(* under /static/ has status 404, whatever its method; under /static/ a GET *)
(* or HEAD has status 404 (the static folder has no file), an OPTIONS 200   *)
(* with no body and any other method 405; and for no request whose path is  *)
(* neither / nor /healthz did index or healthz run.                         *)
C3_UndefinedPath404 ==
    \A i \in Ids :
        Responded(i) /\ reqs[i].path \notin {RootPath, HealthzPath}
            => /\ reqs[i].view \notin {"index", "healthz"}
               /\ ~UnderStatic(reqs[i].path) => reqs[i].response.status = 404
               /\ UnderStatic(reqs[i].path) =>
                    reqs[i].response.status =
                        CASE reqs[i].method \in {"GET", "HEAD"} -> 404
                          [] reqs[i].method = "OPTIONS" -> 200
                          [] OTHER -> 405
               /\ reqs[i].response.status = 200 => reqs[i].response.data = ""

(* GET /nonexistent and POST /nonexistent both answered. *)
C3_Witness ==
    /\ Len(reqs) = 2
    /\ \A i \in Ids : Responded(i) /\ reqs[i].path = <<"nonexistent">>
    /\ reqs[1].method = "GET" /\ reqs[2].method = "POST"

(* C4: every answered request to / or /healthz whose method the route does  *)
(* not support (the route supports GET, HEAD and OPTIONS) has status 405,   *)
(* and no view function ran for it.                                         *)
C4_UnsupportedMethod405 ==
    \A i \in Ids :
        /\ Responded(i)
        /\ reqs[i].path \in {RootPath, HealthzPath}
        /\ reqs[i].method \notin {"GET", "HEAD", "OPTIONS"}
        => reqs[i].response.status = 405 /\ reqs[i].view = "none"

(* POST /healthz and POST / both answered. *)
C4_Witness ==
    \E i, j \in Ids :
        /\ Responded(i) /\ Is(i, "POST", HealthzPath)
        /\ Responded(j) /\ Is(j, "POST", RootPath)

(* C5 as stated: every answered request other than GET / and GET /healthz   *)
(* has status 404 or 405 and neither the greeting nor the health body.      *)
C5_Original ==
    \A i \in Ids :
        Responded(i) /\ ~Is(i, "GET", RootPath) /\ ~Is(i, "GET", HealthzPath)
            => /\ reqs[i].response.status \in ErrorStatus
               /\ reqs[i].response.data \notin {GreetingBody, HealthBody}

(* C5 amended: every answered request other than GET / and GET /healthz     *)
(* carries neither the greeting nor the health body, and has status 404 or  *)
(* 405 unless it is a HEAD on / or /healthz or an OPTIONS on a routed path  *)
(* (/, /healthz, under /static/), which have status 200 and an empty body.  *)
C5_FailClosed ==
    \A i \in Ids :
        Responded(i) /\ ~Is(i, "GET", RootPath) /\ ~Is(i, "GET", HealthzPath)
            => /\ reqs[i].response.data \notin {GreetingBody, HealthBody}
               /\ IF \/ /\ reqs[i].method \in {"HEAD", "OPTIONS"}
                        /\ reqs[i].path \in {RootPath, HealthzPath}
                     \/ reqs[i].method = "OPTIONS" /\ UnderStatic(reqs[i].path)
                  THEN reqs[i].response.status = 200 /\ reqs[i].response.data = ""
                  ELSE reqs[i].response.status \in ErrorStatus

(* HEAD / and POST / both answered. *)
C5_Witness ==
    /\ Len(reqs) = 2
    /\ \A i \in Ids : Responded(i)
    /\ Is(1, "HEAD", RootPath) /\ Is(2, "POST", RootPath)

(* C6: any two answered requests with the same method and path have the     *)
(* same status and the same body bytes, whatever was served between them.   *)
C6_Idempotent ==
    \A i, j \in Ids :
        /\ Responded(i) /\ Responded(j)
        /\ reqs[i].method = reqs[j].method /\ reqs[i].path = reqs[j].path
        => /\ reqs[i].response.status = reqs[j].response.status
           /\ reqs[i].response.data = reqs[j].response.data

(* The same GET /healthz was requested twice and answered both times. *)
C6_Witness ==
    /\ Len(reqs) = 2
    /\ \A i \in Ids : Responded(i)
    /\ Is(1, "GET", HealthzPath) /\ Is(2, "GET", HealthzPath)

IsHealthzGet(i) == Is(i, "GET", HealthzPath)

(* Every request answered so far is left as it is by the step. *)
AnsweredStay ==
    \A i \in Ids : Responded(i) => i \in 1..Len(reqs') /\ reqs'[i] = reqs[i]

(* C7: with several GET /healthz in flight at once, handled in any          *)
(* interleaving with each other and with other requests, each is answered   *)
(* exactly once, with status 200 and the health body, no step of another    *)
(* request alters a response already given, and each is answered as long as *)
(* the process is not terminated.                                           *)
C7_ConcurrentHealthz ==
    /\ [](\A i \in Ids :
            IsHealthzGet(i) =>
                /\ reqs[i].sent = (IF Responded(i) THEN 1 ELSE 0)
                /\ Responded(i) =>
                     reqs[i].response.status = 200 /\ reqs[i].response.data = HealthBody)
    /\ [][AnsweredStay]_vars
    /\ \A i \in 1..MaxReq :
          (i \in Ids /\ IsHealthzGet(i))
              ~> ((i \in Ids /\ Responded(i)) \/ server.state = "terminated")

(* Two GET /healthz in flight together and answered out of order: the       *)
(* second is answered while the first, accepted before it, is only matched. *)
C7_Witness ==
    /\ Len(reqs) >= 2
    /\ IsHealthzGet(1) /\ reqs[1].stage = "matched"
    /\ IsHealthzGet(2) /\ Responded(2)
    /\ reqs[2].sent = 1 /\ reqs[2].response.data = HealthBody

(* C8: every 200 response to GET / and to GET /healthz has the              *)
(* Content-Type application/json.                                           *)
C8_JsonContentType ==
    \A i \in Ids :
        /\ Responded(i)
        /\ Is(i, "GET", RootPath) \/ Is(i, "GET", HealthzPath)
        /\ reqs[i].response.status = 200
        => reqs[i].response.mimetype = "application/json"

(* A 200 response to GET / and one to GET /healthz. *)
C8_Witness ==
    \E i, j \in Ids :
        /\ Responded(i) /\ Is(i, "GET", RootPath) /\ reqs[i].response.status = 200
        /\ Responded(j) /\ Is(j, "GET", HealthzPath) /\ reqs[j].response.status = 200

(* C9: a serving process stops serving only by the external termination, a  *)
(* step that handles no request; and every accepted request is eventually   *)
(* answered unless the process is terminated.                               *)
C9_ServesUntilTerminated ==
    /\ [][server.state = "serving" /\ server'.state # "serving"
            => server'.state = "terminated" /\ reqs' = reqs]_vars
    /\ [][reqs' # reqs => server' = server /\ server.state = "serving"]_vars
    /\ \A i \in 1..MaxReq :
          (i \in Ids) ~> ((i \in Ids /\ Responded(i)) \/ server.state = "terminated")

(* The process still serves after answering a matched and an unmatched      *)
(* request.                                                                 *)
C9_Witness ==
    /\ server.state = "serving"
    /\ \E i, j \in Ids :
          /\ Responded(i) /\ reqs[i].response.status = 200
          /\ Responded(j) /\ reqs[j].response.status = 404

(* The rules of a URL map as (path, endpoint, methods) triples. *)
Routes(map) == {<<r.rule, r.endpoint, r.methods>> : r \in map}

(* A step that handles request i changes nothing but request i. *)
HandlesOnly(i) ==
    /\ url_map' = url_map
    /\ server' = server
    /\ Len(reqs') = Len(reqs)
    /\ \A j \in Ids : j # i => reqs'[j] = reqs[j]

(* C10 as stated: the route table holds exactly the two routes GET / and    *)
(* GET /healthz in every reachable state.                                   *)
C10_Original ==
    {<<r.rule, r.endpoint>> : r \in url_map}
        = {<<RootPath, "index">>, <<HealthzPath, "healthz">>}

(* C10 amended: in every reachable state the route table holds the rules of *)
(* / (index) and /healthz (healthz), each for GET, HEAD and OPTIONS, and    *)
(* the static-file rule of /static/; every step that handles a request      *)
(* leaves the route table, the process and every other request unchanged.   *)
C10_NoSharedState ==
    /\ [](Routes(url_map) = {<<RootPath, "index", {"GET", "HEAD", "OPTIONS"}>>,
                             <<HealthzPath, "healthz", {"GET", "HEAD", "OPTIONS"}>>,
                             <<(<<"static">>), "static", {"GET", "HEAD", "OPTIONS"}>>})
    /\ [][\A i \in Ids : reqs'[i] # reqs[i] => HandlesOnly(i)]_vars
    /\ [][Len(reqs') # Len(reqs) => url_map' = url_map /\ server' = server
                                    /\ \A j \in Ids : reqs'[j] = reqs[j]]_vars

(* A request was answered with an error while another is in flight, and the *)
(* route table is the one built at startup.                                 *)
C10_Witness ==
    /\ Len(reqs) = 2
    /\ Responded(1) /\ reqs[1].response.status \in ErrorStatus
    /\ reqs[2].stage = "matched"
    /\ Cardinality(url_map) = 3

====
